---- MODULE Spec2Model ----
(***************************************************************************)
(* Model of uachema/weather-api: the HTTP handler handleRoot and the       *)
(* concurrent batch fetcher WeatherService.FetchCitiesWeather.             *)
(*                                                                         *)
(* One behaviour is one call: either an HTTP request served by handleRoot  *)
(* (which calls FetchCitiesWeather when at least one city is given) or a   *)
(* direct call of FetchCitiesWeather.  The goroutines of a batch are the   *)
(* caller (dispatch loop, then collector), one worker per city occurrence  *)
(* and the closer.  Each action is one step of one goroutine between two   *)
(* synchronisation points.                                                 *)
(***************************************************************************)
EXTENDS Integers, Sequences, FiniteSets

\* ---------------------------------------------------------------- bounds
MaxCities == 2

CityNames == {"lahore", "karachi"}

\* ------------------------------------------------------- program constants
StatusOK == 200
StatusBadRequest == 400
StatusInternalServerError == 500
StatusNotFound == 404

Nil == "nil"

MsgNoCity == "At least one city parameter is required"
MsgSuccess == "Weather fetched successfully"

\* ------------------------------------------------------------------ state
VARIABLES
    other,      \* a second FetchCitiesWeather call on the same service: its
                \* own cities, wg, ch, result and goroutine positions
    env,        \* the process environment: PORT and OPEN_WEATHER_API_KEY
    proc,       \* the process: where main is, the listen address, whether
                \* the APIServer exists
    caller,     \* "handler": HTTP request through handleRoot; "direct": FetchCitiesWeather
                \* called directly; "single": FetchCityWeather called once per city
    provider,   \* the WeatherProvider handleRoot was given: "WeatherService" or "other"
    ws,         \* the WeatherService (apiKey, baseURL)
    cities,     \* the city list (r.URL.Query()["city"] / the argument)
    hpc,        \* position of handleRoot
    resp,       \* what the http.ResponseWriter has been given
    fpc,        \* position of the goroutine running FetchCitiesWeather
    next,       \* number of cities the dispatch loop has gone through
    wg,         \* sync.WaitGroup counter
    ch,         \* buffered content of channel ch
    chClosed,   \* close(ch) has happened
    wpc,        \* position of each worker goroutine
    res,        \* each worker's local (res, err) of http.Get
    gets,       \* number of http.Get calls issued for each city occurrence
    outs,       \* what each FetchCityWeather call was given and returned
    sent,       \* the records sent on ch, in the order of the sends
    closes,     \* number of res.Body.Close() calls for each city occurrence
    logged,     \* which log.Printf each worker has issued
    cpc,        \* position of the closer goroutine
    result,     \* the collector's accumulator
    ret,        \* the values FetchCitiesWeather returned
    panicked    \* a goroutine has panicked

vars == <<other, env, proc, caller, provider, ws, cities, hpc, resp, fpc, next, wg, ch, chClosed,
          wpc, res, gets, outs, sent, closes, logged, cpc, result, ret,
          panicked>>

Idx == 1..Len(cities)

\* ------------------------------------------------------------- data types
\* WeatherData, reduced to the field that identifies the record.
WeatherData(name) == [Name |-> name]

ZeroWeatherData == WeatherData("")

\* A record holding a float64 NaN: encoding/json cannot marshal it.  Only a
\* WeatherProvider other than WeatherService can produce one.
NaNWeatherData == WeatherData("NaN")

\* The credential main reads from OPEN_WEATHER_API_KEY.
ApiKey == "key"

BaseURL == "https://api.openweathermap.org/data/2.5/weather"

\* main: the port used when PORT is empty.
DefaultPort == "3000"

Ports == {"", "8080"}

\* The environments main may be started in.
Envs == [PORT : Ports, OPEN_WEATHER_API_KEY : {"", ApiKey}]

\* Mutant: main goes on without a key.
KeyMissing_never(apiKey) == FALSE

\* main: if apiKey == "" { log.Fatal(...) }.
KeyMissing(apiKey) == apiKey = ""

\* main: the port read from PORT, "3000" when empty.
PortOf(e) == IF e.PORT = "" THEN DefaultPort ELSE e.PORT

\* main: listenAddr := fmt.Sprintf(":%s", port).
ListenAddr(port) == ":" \o port

\* No WeatherService has been created.
NoService == [apiKey |-> "", baseURL |-> ""]

\* The process before main has run, and after log.Fatal.
Starting == [state |-> "starting", addr |-> "", server |-> FALSE]

Fatal(p) == [p EXCEPT !.state = "fatal"]

\* The process serving on listenAddr.
Listening(addr) == [state |-> "listening", addr |-> addr, server |-> TRUE]

\* NewWeatherService(apiKey)
NewWeatherService(apiKey) == [apiKey |-> apiKey, baseURL |-> BaseURL]

\* constructURL: "%s?q=%s&appid=%s" of baseURL, city, apiKey.
constructURL(w, city) == [base |-> w.baseURL, q |-> city, appid |-> w.apiKey]

\* The WeatherService after a FetchCityWeather call: no field is assigned.
WsAfterFetch(w) == w

\* Response bodies: a JSON document of a weather record, or something that
\* does not decode.
JsonBody(name) == [valid |-> TRUE, name |-> name]

GarbageBody == [valid |-> FALSE, name |-> ""]

NoRes == [err |-> "none", StatusCode |-> 0, Body |-> GarbageBody]

\* The names the upstream may put in a record: the city asked for, another
\* city, or none ({} and null decode to the zero record).
UpstreamNames == CityNames \cup {""}

\* The outcomes http.Get can have for the URL of one city: a transport
\* error, or a response with a status and a body.  Nothing ties the body of
\* a 200 to the request: the code forwards whatever record decodes.  The
\* body of a non-200 is never read: a decodable and an undecodable one stand
\* for all.
HttpGet(url) ==
    {[err |-> "transport", StatusCode |-> 0, Body |-> GarbageBody]}
    \cup {[err |-> Nil, StatusCode |-> StatusOK, Body |-> b] :
             b \in {JsonBody(n) : n \in UpstreamNames} \cup {GarbageBody}}
    \cup {[err |-> Nil, StatusCode |-> StatusNotFound, Body |-> b] :
             b \in {JsonBody(url.q), GarbageBody}}

\* Mutant: the status check is skipped.
validateResponse_skip(r) == Nil

\* validateResponse: nil iff the status code is 200.
validateResponse(r) ==
    IF r.StatusCode # StatusOK THEN "status" ELSE Nil

\* Mutant: a body that does not decode is not reported.
parseWeatherData_lenient(r) ==
    IF r.Body.valid
    THEN [data |-> WeatherData(r.Body.name), err |-> Nil]
    ELSE [data |-> ZeroWeatherData, err |-> Nil]

\* parseWeatherData: decodes the body; the zero record and an error when the
\* body does not decode.
parseWeatherData(r) ==
    IF r.Body.valid
    THEN [data |-> WeatherData(r.Body.name), err |-> Nil]
    ELSE [data |-> ZeroWeatherData, err |-> "decode"]

\* Mutant: the 200 check is missing from FetchCityWeather.
FetchCityWeather_nostatus(r) ==
    IF r.err # Nil THEN [data |-> ZeroWeatherData, err |-> "fetch"]
    ELSE parseWeatherData(r)

\* Mutant: the status is checked after the body is decoded.
FetchCityWeather_parsefirst(r) ==
    IF r.err # Nil THEN [data |-> ZeroWeatherData, err |-> "fetch"]
    ELSE IF parseWeatherData(r).err # Nil THEN parseWeatherData(r)
    ELSE IF validateResponse(r) # Nil
         THEN [data |-> ZeroWeatherData, err |-> validateResponse(r)]
    ELSE parseWeatherData(r)

\* FetchCityWeather, given the outcome r of its http.Get: the transport
\* error, else the status error, else what parseWeatherData returns.
FetchCityWeather(r) ==
    IF r.err # Nil THEN [data |-> ZeroWeatherData, err |-> "fetch"]
    ELSE IF validateResponse(r) # Nil
         THEN [data |-> ZeroWeatherData, err |-> validateResponse(r)]
    ELSE parseWeatherData(r)

\* The handler loop of the sequential server, over the upstream outcomes
\* rs of the cities: FetchCityWeather per city, the record appended when
\* err == nil.
RECURSIVE SequentialResults(_)
SequentialResults(rs) ==
    IF Len(rs) = 0 THEN <<>>
    ELSE LET before == SequentialResults(SubSeq(rs, 1, Len(rs) - 1))
             last == FetchCityWeather(rs[Len(rs)])
         IN  IF last.err = Nil THEN Append(before, last.data) ELSE before

\* Mutant: the body is closed only after the status check has passed.
BodyCloses_afterstatus(r) ==
    IF r.err = Nil /\ r.StatusCode = StatusOK THEN 1 ELSE 0

\* The deferred res.Body.Close(): registered once http.Get returned without
\* error, so it runs once on every later return; not at all on a transport
\* error.
BodyCloses(r) == IF r.err = Nil THEN 1 ELSE 0

\* Mutant: the worker appends to the accumulator itself.
ResultAfterSend_append(rs, data) == Append(rs, data)

\* The accumulator after a worker's send: the worker does not touch it.
ResultAfterSend(rs, data) == rs

\* Mutant: the worker retries after a transport error.
WorkerAfterGet_retry(r) == IF r.err # Nil THEN "get" ELSE "got"

\* Where the worker goes after http.Get: it returns on a transport error.
WorkerAfterGet(r) == IF r.err # Nil THEN "exit" ELSE "got"

\* Mutant: the buffer is one record short.
ChanCap_short(cs) == Len(cs) - 1

\* Mutant: the channel holds one record.
ChanCap_one(cs) == 1

\* make(chan WeatherData, len(cities))
ChanCap(cs) == Len(cs)

\* Mutant: the counter is raised by two per worker.
WgAdd_two(n) == n + 2

\* wg.Add(1)
WgAdd(n) == n + 1

\* Mutant: Done is not called.
WgDone_missing(n) == n

\* Mutant: Done is called twice by a worker.
WgDone_twice(n) == n - 2

\* wg.Done()
WgDone(n) == n - 1

\* Mutant: the closer does not wait for the workers.
WgWaitReturns_nowait(n) == TRUE

\* Mutant: the closer goes on when one worker is still counted.
WgWaitReturns_early(n) == n <= 1

\* wg.Wait() returns when the counter is zero.
WgWaitReturns(n) == n = 0

\* Mutants: the accumulator is overwritten, written twice, or deduplicated.
AppendResult_overwrite(rs, data) == <<data>>

AppendResult_twice(rs, data) == Append(Append(rs, data), data)

AppendResult_dedup(rs, data) ==
    IF \E k \in DOMAIN rs : rs[k] = data THEN rs ELSE Append(rs, data)

\* Mutant: the newest record is put in front.
AppendResult_prepend(rs, data) == <<data>> \o rs

\* result = append(result, data)
AppendResult(rs, data) == Append(rs, data)

\* Mutant: an error is returned when some city is missing from the result.
FetchCitiesWeatherErr_partial(rs) ==
    IF Len(rs) < Len(cities) THEN "partial" ELSE Nil

\* Mutant: an empty result is reported as an error.
FetchCitiesWeatherErr_empty(rs) == IF Len(rs) = 0 THEN "no data" ELSE Nil

\* The error FetchCitiesWeather returns (return result, nil).
FetchCitiesWeatherErr(rs) == Nil

\* Mutant: the empty-list guard is missing.
NoCities_never(cs) == FALSE

\* len(cities) == 0 in handleRoot
NoCities(cs) == Len(cs) = 0

\* The http.ResponseWriter: the status sent (that of the first WriteHeader
\* call, 0 before), the statuses passed to WriteHeader, the documents
\* written to the body, and the error the last WriteJSON returned.
NoResp == [status |-> 0, calls |-> <<>>, body |-> <<>>, err |-> Nil]

APIError(msg) == [kind |-> "error", Error |-> msg]

APIResponse(msg, data) == [kind |-> "response", Message |-> msg, Data |-> data]

\* json.Encoder.Encode marshals v before it writes anything; it fails on a
\* value it cannot represent.
Marshals(v) ==
    \/ v.kind = "error"
    \/ \A k \in DOMAIN v.Data : v.Data[k] # NaNWeatherData

\* WriteJSON: sets the header, calls WriteHeader(status), encodes v and
\* returns the encoder's error.  WriteHeader after the first has no effect
\* on the status sent.
WriteJSON(w, status, v) ==
    [status |-> IF w.status = 0 THEN status ELSE w.status,
     calls  |-> Append(w.calls, status),
     body   |-> IF Marshals(v) THEN Append(w.body, v) ELSE w.body,
     err    |-> IF Marshals(v) THEN Nil ELSE "json: unsupported value"]

\* makeHTTPHandlerFunc, given the writer as handleRoot left it and, in
\* w.err, the error handleRoot returned: on an error it calls WriteJSON with
\* 500 and drops what that call returns.
makeHTTPHandlerFunc(w) ==
    IF w.err # Nil
    THEN [WriteJSON(w, StatusInternalServerError, APIError(w.err))
             EXCEPT !.err = w.err]
    ELSE w

\* Mutant: an empty result is answered as a server error.
FetchResponse_empty500(w, r) ==
    IF r.err # Nil \/ Len(r.result) = 0
    THEN WriteJSON(w, StatusInternalServerError, APIError("no data"))
    ELSE WriteJSON(w, StatusOK, APIResponse(MsgSuccess, r.result))

\* Mutant: the provider's error is ignored.
FetchResponse_ignoreerr(w, r) ==
    WriteJSON(w, StatusOK, APIResponse(MsgSuccess, r.result))

\* The response handleRoot writes after FetchCitiesWeather returned.
FetchResponse(w, r) ==
    IF r.err # Nil
    THEN WriteJSON(w, StatusInternalServerError, APIError(r.err))
    ELSE WriteJSON(w, StatusOK, APIResponse(MsgSuccess, r.result))

\* ------------------------------------------------------------------- Init
RECURSIVE SeqsUpTo(_, _)
SeqsUpTo(S, n) ==
    IF n = 0 THEN {<<>>}
    ELSE LET shorter == SeqsUpTo(S, n - 1)
         IN  shorter \cup {Append(s, x) : s \in {t \in shorter : Len(t) = n - 1}, x \in S}

NoRet == [result |-> <<>>, err |-> "none"]

\* Mutant: every call's workers send on the first call's channel.
ChanOf_shared(call) == "first"

\* The channel a worker sends on is the one its own call made: ch is a local
\* of FetchCitiesWeather, captured by the worker's closure.
ChanOf(call) == call

\* The locals of a FetchCitiesWeather call over the list cs, at its entry.
NewCall(cs) ==
    [cities |-> cs, fpc |-> "dispatch", next |-> 0, wg |-> 0, ch |-> <<>>,
     chClosed |-> FALSE, wpc |-> [i \in 1..Len(cs) |-> "notstarted"],
     res |-> [i \in 1..Len(cs) |-> NoRes], cpc |-> "notstarted",
     result |-> <<>>, ret |-> NoRet]

\* No second call is made.
NoCall == [NewCall(<<>>) EXCEPT !.fpc = "notcalled"]

OIdx == 1..Len(other.cities)

Init ==
    /\ other = NoCall
    /\ env = [PORT |-> "", OPEN_WEATHER_API_KEY |-> ApiKey]
    /\ proc = Listening(ListenAddr(PortOf(env)))
    /\ caller \in {"handler", "direct", "single"}
    /\ provider \in IF caller = "handler" THEN {"WeatherService", "other"}
                                          ELSE {"WeatherService"}
    /\ ws = NewWeatherService(ApiKey)
    /\ cities \in SeqsUpTo(CityNames, MaxCities)
    /\ hpc = IF caller = "handler" THEN "handleRoot" ELSE "none"
    /\ fpc = IF caller = "direct" THEN "dispatch" ELSE "notcalled"
    /\ resp = NoResp
    /\ next = 0
    /\ wg = 0
    /\ ch = <<>>
    /\ chClosed = FALSE
    /\ wpc = [i \in Idx |-> "notstarted"]
    /\ res = [i \in Idx |-> NoRes]
    /\ gets = [i \in Idx |-> 0]
    /\ outs = <<>>
    /\ sent = <<>>
    /\ closes = [i \in Idx |-> 0]
    /\ logged = [i \in Idx |-> "none"]
    /\ cpc = "notstarted"
    /\ result = <<>>
    /\ ret = NoRet
    /\ panicked = FALSE

\* ---------------------------------------------------------------- handler
\* handleRoot up to the call of FetchCitiesWeather: the 400 answer when no
\* city is given, the call otherwise.
HandleRoot ==
    /\ hpc = "handleRoot"
    /\ IF NoCities(cities)
       THEN /\ resp' = makeHTTPHandlerFunc(
                          WriteJSON(resp, StatusBadRequest, APIError(MsgNoCity)))
            /\ hpc' = "responded"
            /\ fpc' = fpc
       ELSE /\ resp' = resp
            /\ hpc' = "fetching"
            /\ fpc' = IF provider = "WeatherService" THEN "dispatch" ELSE fpc
    /\ UNCHANGED <<other, env, proc, caller, provider, sent, closes, ws, cities, gets, outs, next, wg, ch, chClosed, wpc, res, logged,
                   cpc, result, ret, panicked>>

\* A WeatherProvider other than WeatherService returns from
\* FetchCitiesWeather: any results, any error.
OtherProviderReturns ==
    /\ hpc = "fetching"
    /\ provider = "other"
    /\ ret = NoRet
    /\ \E rs \in {<<>>, <<WeatherData(cities[1])>>, <<NaNWeatherData>>},
          e \in {Nil, "provider failed"} :
          ret' = [result |-> rs, err |-> e]
    /\ UNCHANGED <<other, env, proc, caller, provider, sent, closes, ws, cities, gets, outs, hpc, resp, fpc,
                   next, wg, ch, chClosed, wpc, res, logged, cpc, result,
                   panicked>>

\* handleRoot after FetchCitiesWeather returned, and makeHTTPHandlerFunc
\* after handleRoot returned.
HandleRespond ==
    /\ hpc = "fetching"
    /\ ret # NoRet
    /\ resp' = makeHTTPHandlerFunc(FetchResponse(resp, ret))
    /\ hpc' = "responded"
    /\ UNCHANGED <<other, env, proc, caller, provider, sent, closes, ws, cities, gets, outs, fpc, next, wg, ch, chClosed, wpc, res,
                   logged, cpc, result, ret, panicked>>

\* ----------------------------------------------------- FetchCitiesWeather
\* One iteration of the dispatch loop: wg.Add(1); go func(city){...}(city).
Dispatch ==
    /\ fpc = "dispatch"
    /\ ~panicked
    /\ next < Len(cities)
    /\ wg' = WgAdd(wg)
    /\ wpc' = [wpc EXCEPT ![next + 1] = "get"]
    /\ next' = next + 1
    /\ UNCHANGED <<other, env, proc, caller, provider, sent, closes, ws, cities, gets, outs, hpc, resp, fpc, ch, chClosed, res, logged,
                   cpc, result, ret, panicked>>

\* End of the loop: go func(){ wg.Wait(); close(ch) }().
StartCloser ==
    /\ fpc = "dispatch"
    /\ ~panicked
    /\ next = Len(cities)
    /\ cpc' = "wait"
    /\ fpc' = "collect"
    /\ UNCHANGED <<other, env, proc, caller, provider, sent, closes, ws, cities, gets, outs, hpc, resp, next, wg, ch, chClosed, wpc,
                   res, logged, result, ret, panicked>>

\* Worker: url := constructURL(city); res, err := http.Get(url); on a
\* transport error, log and return.
WorkerGet(i) ==
    /\ wpc[i] = "get"
    /\ ~panicked
    /\ \E r \in HttpGet(constructURL(ws, cities[i])) :
          /\ res' = [res EXCEPT ![i] = r]
          /\ logged' = IF r.err # Nil THEN [logged EXCEPT ![i] = "fetch"]
                                      ELSE logged
          /\ wpc' = [wpc EXCEPT ![i] = WorkerAfterGet(r)]
    /\ gets' = [gets EXCEPT ![i] = @ + 1]
    /\ UNCHANGED <<other, env, proc, caller, provider, sent, closes, ws, cities, outs, hpc, resp, fpc, next, wg, ch, chClosed,
                   cpc, result, ret, panicked>>

\* Worker: validateResponse, then parseWeatherData; on either error, log and
\* return; otherwise go on to the send.
WorkerProcess(i) ==
    /\ wpc[i] = "got"
    /\ ~panicked
    /\ IF validateResponse(res[i]) # Nil
       THEN /\ logged' = [logged EXCEPT ![i] = "invalid"]
            /\ wpc' = [wpc EXCEPT ![i] = "exit"]
       ELSE IF parseWeatherData(res[i]).err # Nil
       THEN /\ logged' = [logged EXCEPT ![i] = "parse"]
            /\ wpc' = [wpc EXCEPT ![i] = "exit"]
       ELSE /\ logged' = logged
            /\ wpc' = [wpc EXCEPT ![i] = "send"]
    /\ UNCHANGED <<other, env, proc, caller, provider, sent, closes, ws, cities, gets, outs, hpc, resp, fpc, next, wg, ch, chClosed,
                   res, cpc, result, ret, panicked>>

\* Worker: ch <- weatherData.  Blocks while the buffer is full; panics on a
\* closed channel.
WorkerSend(i) ==
    /\ wpc[i] = "send"
    /\ ~panicked
    /\ chClosed \/ Len(ch) < ChanCap(cities)
    /\ IF chClosed
       THEN /\ panicked' = TRUE
            /\ UNCHANGED <<ch, wpc, sent, result>>
       ELSE /\ ch' = Append(ch, parseWeatherData(res[i]).data)
            /\ sent' = Append(sent, parseWeatherData(res[i]).data)
            /\ result' = ResultAfterSend(result, parseWeatherData(res[i]).data)
            /\ wpc' = [wpc EXCEPT ![i] = "exit"]
            /\ panicked' = panicked
    /\ UNCHANGED <<other, env, proc, caller, provider, closes, ws, cities, gets, outs, hpc, resp,
                   fpc, next, wg, chClosed, res, logged, cpc, ret>>

\* Worker: the deferred calls, res.Body.Close() (when there is a response)
\* and wg.Done().  A negative counter panics.
WorkerDone(i) ==
    /\ wpc[i] = "exit"
    /\ ~panicked
    /\ closes' = [closes EXCEPT ![i] = @ + BodyCloses(res[i])]
    /\ wg' = WgDone(wg)
    /\ panicked' = (wg' < 0)
    /\ wpc' = [wpc EXCEPT ![i] = "finished"]
    /\ UNCHANGED <<other, env, proc, caller, provider, sent, ws, cities, gets, outs, hpc, resp,
                   fpc, next, ch, chClosed, res, logged, cpc, result, ret>>

\* Closer: wg.Wait() returns.
CloserWait ==
    /\ cpc = "wait"
    /\ ~panicked
    /\ WgWaitReturns(wg)
    /\ cpc' = "close"
    /\ UNCHANGED <<other, env, proc, caller, provider, sent, closes, ws, cities, gets, outs, hpc, resp, fpc, next, wg, ch, chClosed,
                   wpc, res, logged, result, ret, panicked>>

\* Closer: close(ch).  Closing a closed channel panics.
CloserClose ==
    /\ cpc = "close"
    /\ ~panicked
    /\ chClosed' = TRUE
    /\ panicked' = chClosed
    /\ cpc' = "finished"
    /\ UNCHANGED <<other, env, proc, caller, provider, sent, closes, ws, cities, gets, outs, hpc, resp, fpc, next, wg, ch, wpc, res,
                   logged, result, ret>>

\* Collector: one iteration of for data := range ch.
Collect ==
    /\ fpc = "collect"
    /\ ~panicked
    /\ Len(ch) > 0
    /\ result' = AppendResult(result, Head(ch))
    /\ ch' = Tail(ch)
    /\ UNCHANGED <<other, env, proc, caller, provider, sent, closes, ws, cities, gets, outs, hpc, resp, fpc, next, wg, chClosed, wpc,
                   res, logged, cpc, ret, panicked>>

\* Collector: the range ends on the closed, drained channel; return result, nil.
Return ==
    /\ fpc = "collect"
    /\ ~panicked
    /\ Len(ch) = 0
    /\ chClosed
    /\ ret' = [result |-> result, err |-> FetchCitiesWeatherErr(result)]
    /\ fpc' = "returned"
    /\ UNCHANGED <<other, env, proc, caller, provider, sent, closes, ws, cities, gets, outs, hpc, resp, next, wg, ch, chClosed, wpc,
                   res, logged, cpc, result, panicked>>

\* ------------------------------------------------------- FetchCityWeather
\* One call of FetchCityWeather, for the next city of the list: the URL,
\* http.Get, validateResponse, parseWeatherData, the deferred Body.Close.
CallFetchCityWeather ==
    /\ caller = "single"
    /\ next < Len(cities)
    /\ LET i == next + 1
           url == constructURL(ws, cities[i])
       IN  \E r \in HttpGet(url) :
              /\ res' = [res EXCEPT ![i] = r]
              /\ gets' = [gets EXCEPT ![i] = @ + 1]
              /\ closes' = [closes EXCEPT ![i] = @ + BodyCloses(r)]
              /\ outs' = Append(outs, [url |-> url, res |-> r,
                                       ret |-> FetchCityWeather(r)])
    /\ ws' = WsAfterFetch(ws)
    /\ next' = next + 1
    /\ UNCHANGED <<other, env, proc, caller, provider, sent, cities, hpc, resp, fpc, wg, ch, chClosed,
                   wpc, logged, cpc, result, ret, panicked>>

Worker(i) == WorkerGet(i) \/ WorkerProcess(i) \/ WorkerSend(i) \/ WorkerDone(i)

Next ==
    \/ HandleRoot
    \/ OtherProviderReturns
    \/ HandleRespond
    \/ Dispatch
    \/ StartCloser
    \/ \E i \in Idx : WorkerGet(i)
    \/ \E i \in Idx : WorkerProcess(i)
    \/ \E i \in Idx : WorkerSend(i)
    \/ \E i \in Idx : WorkerDone(i)
    \/ CloserWait
    \/ CloserClose
    \/ Collect
    \/ Return
    \/ CallFetchCityWeather

Spec == Init /\ [][Next]_vars

\* The steps of worker i that end a wait on the upstream: http.Get
\* returning (the response headers have arrived), and, after a 200,
\* parseWeatherData returning (Decode has read the body from the connection).
WorkerWaits(i) ==
    \/ WorkerGet(i)
    \/ WorkerProcess(i) /\ validateResponse(res[i]) = Nil

\* The steps of worker i that are its own: the rejection of a non-200
\* status, which reads no body, the send and the deferred calls.
WorkerRuns(i) ==
    \/ WorkerProcess(i) /\ validateResponse(res[i]) # Nil
    \/ WorkerSend(i)
    \/ WorkerDone(i)

\* What the Go scheduler guarantees: every runnable goroutine runs
\* eventually.  A goroutine inside http.Get or inside the read of a
\* response body is not runnable until the upstream delivers, and the
\* default client sets no timeout, so the steps that end such a wait
\* (WorkerWaits, CallFetchCityWeather) and the return of a foreign provider
\* (OtherProviderReturns) are not fair here.
SchedSpec ==
    /\ Spec
    /\ WF_vars(HandleRoot \/ HandleRespond)
    /\ WF_vars(Dispatch \/ StartCloser \/ Collect \/ Return)
    /\ WF_vars(CloserWait \/ CloserClose)
    /\ \A i \in 1..MaxCities : WF_vars(i \in Idx /\ WorkerRuns(i))

\* SchedSpec under the hypothesis that every upstream exchange completes,
\* the body included (every http.Get returns and every body read ends, with
\* a record or with an error), and that every provider call returns.  The
\* hypothesis is not a property of the code: it is the premise of the claims
\* checked under this specification.
FairSpec ==
    /\ SchedSpec
    /\ WF_vars(OtherProviderReturns)
    /\ WF_vars(CallFetchCityWeather)
    /\ \A i \in 1..MaxCities : WF_vars(i \in Idx /\ WorkerWaits(i))

\* ------------------------------------------------------------------ main
\* The process from its start: main has not run, no service exists, no
\* request has been accepted.
MainInit ==
    /\ other = NoCall
    /\ env \in Envs
    /\ proc = Starting
    /\ caller = "handler"
    /\ provider = "WeatherService"
    /\ ws = NoService
    /\ cities \in SeqsUpTo(CityNames, MaxCities)
    /\ hpc = "idle"
    /\ fpc = "notcalled"
    /\ resp = NoResp
    /\ next = 0
    /\ wg = 0
    /\ ch = <<>>
    /\ chClosed = FALSE
    /\ wpc = [i \in Idx |-> "notstarted"]
    /\ res = [i \in Idx |-> NoRes]
    /\ gets = [i \in Idx |-> 0]
    /\ outs = <<>>
    /\ sent = <<>>
    /\ closes = [i \in Idx |-> 0]
    /\ logged = [i \in Idx |-> "none"]
    /\ cpc = "notstarted"
    /\ result = <<>>
    /\ ret = NoRet
    /\ panicked = FALSE

\* main: read PORT and OPEN_WEATHER_API_KEY; log.Fatal without a key;
\* otherwise NewWeatherService, NewAPIServer and Run, which serves on
\* listenAddr or ends the process when ListenAndServe fails.
MainStart ==
    /\ proc.state = "starting"
    /\ IF KeyMissing(env.OPEN_WEATHER_API_KEY)
       THEN /\ proc' = Fatal(proc)
            /\ ws' = ws
       ELSE /\ ws' = NewWeatherService(env.OPEN_WEATHER_API_KEY)
            /\ \E listens \in BOOLEAN :
                  proc' = IF listens
                          THEN Listening(ListenAddr(PortOf(env)))
                          ELSE Fatal(Listening(ListenAddr(PortOf(env))))
    /\ UNCHANGED <<other, env, caller, provider, sent, closes, cities, gets, outs, hpc,
                   resp, fpc, next, wg, ch, chClosed, wpc, res, logged, cpc,
                   result, ret, panicked>>

\* The listening server accepts GET / and runs handleRoot.
Serve ==
    /\ proc.state = "listening"
    /\ hpc = "idle"
    /\ hpc' = "handleRoot"
    /\ UNCHANGED <<other, env, proc, caller, provider, sent, closes, ws, cities, gets,
                   outs, resp, fpc, next, wg, ch, chClosed, wpc, res, logged,
                   cpc, result, ret, panicked>>

MainNext ==
    \/ MainStart
    \/ Serve
    \/ HandleRoot
    \/ HandleRespond
    \/ Dispatch
    \/ StartCloser
    \/ \E i \in Idx : WorkerGet(i)
    \/ \E i \in Idx : WorkerProcess(i)
    \/ \E i \in Idx : WorkerSend(i)
    \/ \E i \in Idx : WorkerDone(i)
    \/ CloserWait
    \/ CloserClose
    \/ Collect
    \/ Return

MainSpec == MainInit /\ [][MainNext]_vars

\* ------------------------------------------- two FetchCitiesWeather calls
\* Two calls on the same WeatherService, both at their entry, with at most
\* MaxCities cities between them.
ConcInit ==
    /\ cities \in SeqsUpTo(CityNames, MaxCities)
    /\ other \in {NewCall(cs) : cs \in SeqsUpTo(CityNames, MaxCities - Len(cities))}
    /\ env = [PORT |-> "", OPEN_WEATHER_API_KEY |-> ApiKey]
    /\ proc = Listening(ListenAddr(PortOf(env)))
    /\ caller = "direct"
    /\ provider = "WeatherService"
    /\ ws = NewWeatherService(ApiKey)
    /\ hpc = "none"
    /\ fpc = "dispatch"
    /\ resp = NoResp
    /\ next = 0
    /\ wg = 0
    /\ ch = <<>>
    /\ chClosed = FALSE
    /\ wpc = [i \in Idx |-> "notstarted"]
    /\ res = [i \in Idx |-> NoRes]
    /\ gets = [i \in Idx |-> 0]
    /\ outs = <<>>
    /\ sent = <<>>
    /\ closes = [i \in Idx |-> 0]
    /\ logged = [i \in Idx |-> "none"]
    /\ cpc = "notstarted"
    /\ result = <<>>
    /\ ret = NoRet
    /\ panicked = FALSE

\* Second call: one iteration of the dispatch loop.
OtherDispatch ==
    /\ other.fpc = "dispatch"
    /\ ~panicked
    /\ other.next < Len(other.cities)
    /\ other' = [other EXCEPT !.wg = WgAdd(@),
                              !.wpc[other.next + 1] = "get",
                              !.next = @ + 1]
    /\ UNCHANGED <<env, proc, caller, provider, sent, closes, ws, cities, gets, outs, hpc,
                   resp, fpc, next, wg, chClosed, wpc, res, logged, cpc, result, ret, ch, panicked>>

\* Second call: the closer goroutine is started.
OtherStartCloser ==
    /\ other.fpc = "dispatch"
    /\ ~panicked
    /\ other.next = Len(other.cities)
    /\ other' = [other EXCEPT !.cpc = "wait", !.fpc = "collect"]
    /\ UNCHANGED <<env, proc, caller, provider, sent, closes, ws, cities, gets, outs, hpc,
                   resp, fpc, next, wg, chClosed, wpc, res, logged, cpc, result, ret, ch, panicked>>

\* Second call, worker: constructURL on the shared service and http.Get.
OtherWorkerGet(i) ==
    /\ other.wpc[i] = "get"
    /\ ~panicked
    /\ \E r \in HttpGet(constructURL(ws, other.cities[i])) :
          other' = [other EXCEPT !.res[i] = r, !.wpc[i] = WorkerAfterGet(r)]
    /\ UNCHANGED <<env, proc, caller, provider, sent, closes, ws, cities, gets, outs, hpc,
                   resp, fpc, next, wg, chClosed, wpc, res, logged, cpc, result, ret, ch, panicked>>

\* Second call, worker: validateResponse, then parseWeatherData.
OtherWorkerProcess(i) ==
    /\ other.wpc[i] = "got"
    /\ ~panicked
    /\ other' = [other EXCEPT !.wpc[i] =
                    IF validateResponse(other.res[i]) # Nil THEN "exit"
                    ELSE IF parseWeatherData(other.res[i]).err # Nil THEN "exit"
                    ELSE "send"]
    /\ UNCHANGED <<env, proc, caller, provider, sent, closes, ws, cities, gets, outs, hpc,
                   resp, fpc, next, wg, chClosed, wpc, res, logged, cpc, result, ret, ch, panicked>>

\* Second call, worker: ch <- weatherData, on the channel of its call.
OtherWorkerSend(i) ==
    /\ other.wpc[i] = "send"
    /\ ~panicked
    /\ LET data == parseWeatherData(other.res[i]).data
           own == ChanOf("second") = "second"
           closed == IF own THEN other.chClosed ELSE chClosed
           buf == IF own THEN other.ch ELSE ch
           cap == IF own THEN ChanCap(other.cities) ELSE ChanCap(cities)
       IN  /\ closed \/ Len(buf) < cap
           /\ IF closed
              THEN /\ panicked' = TRUE
                   /\ UNCHANGED <<other, ch>>
              ELSE /\ panicked' = panicked
                   /\ other' = [other EXCEPT
                                   !.wpc[i] = "exit",
                                   !.ch = IF own THEN Append(@, data) ELSE @]
                   /\ ch' = IF own THEN ch ELSE Append(ch, data)
    /\ UNCHANGED <<env, proc, caller, provider, sent, closes, ws, cities, gets, outs, hpc,
                   resp, fpc, next, wg, chClosed, wpc, res, logged, cpc, result, ret>>

\* Second call, worker: the deferred Body.Close and wg.Done.
OtherWorkerDone(i) ==
    /\ other.wpc[i] = "exit"
    /\ ~panicked
    /\ other' = [other EXCEPT !.wg = WgDone(@), !.wpc[i] = "finished"]
    /\ panicked' = (other'.wg < 0)
    /\ UNCHANGED <<env, proc, caller, provider, sent, closes, ws, cities, gets, outs, hpc,
                   resp, fpc, next, wg, chClosed, wpc, res, logged, cpc, result, ret, ch>>

\* Second call, closer: wg.Wait() returns.
OtherCloserWait ==
    /\ other.cpc = "wait"
    /\ ~panicked
    /\ WgWaitReturns(other.wg)
    /\ other' = [other EXCEPT !.cpc = "close"]
    /\ UNCHANGED <<env, proc, caller, provider, sent, closes, ws, cities, gets, outs, hpc,
                   resp, fpc, next, wg, chClosed, wpc, res, logged, cpc, result, ret, ch, panicked>>

\* Second call, closer: close(ch).
OtherCloserClose ==
    /\ other.cpc = "close"
    /\ ~panicked
    /\ other' = [other EXCEPT !.chClosed = TRUE, !.cpc = "finished"]
    /\ panicked' = other.chClosed
    /\ UNCHANGED <<env, proc, caller, provider, sent, closes, ws, cities, gets, outs, hpc,
                   resp, fpc, next, wg, chClosed, wpc, res, logged, cpc, result, ret, ch>>

\* Second call, collector: one iteration of for data := range ch.
OtherCollect ==
    /\ other.fpc = "collect"
    /\ ~panicked
    /\ Len(other.ch) > 0
    /\ other' = [other EXCEPT !.result = AppendResult(@, Head(other.ch)),
                              !.ch = Tail(@)]
    /\ UNCHANGED <<env, proc, caller, provider, sent, closes, ws, cities, gets, outs, hpc,
                   resp, fpc, next, wg, chClosed, wpc, res, logged, cpc, result, ret, ch, panicked>>

\* Second call, collector: return result, nil.
OtherReturn ==
    /\ other.fpc = "collect"
    /\ ~panicked
    /\ Len(other.ch) = 0
    /\ other.chClosed
    /\ other' = [other EXCEPT
                    !.ret = [result |-> other.result,
                             err |-> FetchCitiesWeatherErr(other.result)],
                    !.fpc = "returned"]
    /\ UNCHANGED <<env, proc, caller, provider, sent, closes, ws, cities, gets, outs, hpc,
                   resp, fpc, next, wg, chClosed, wpc, res, logged, cpc, result, ret, ch, panicked>>

ConcNext ==
    \/ Dispatch
    \/ StartCloser
    \/ \E i \in Idx : WorkerGet(i)
    \/ \E i \in Idx : WorkerProcess(i)
    \/ \E i \in Idx : WorkerSend(i)
    \/ \E i \in Idx : WorkerDone(i)
    \/ CloserWait
    \/ CloserClose
    \/ Collect
    \/ Return
    \/ OtherDispatch
    \/ OtherStartCloser
    \/ \E i \in OIdx : OtherWorkerGet(i)
    \/ \E i \in OIdx : OtherWorkerProcess(i)
    \/ \E i \in OIdx : OtherWorkerSend(i)
    \/ \E i \in OIdx : OtherWorkerDone(i)
    \/ OtherCloserWait
    \/ OtherCloserClose
    \/ OtherCollect
    \/ OtherReturn

ConcSpec == ConcInit /\ [][ConcNext]_vars

TypeOK ==
    /\ wg \in Int
    /\ next \in 0..Len(cities)
    /\ chClosed \in BOOLEAN
    /\ panicked \in BOOLEAN

\* ------------------------------------------------------------ properties
\* What the upstream answered to worker i, read off the raw response.
Answered(i) == res[i].err # "none"

Succeeded(i) ==
    /\ res[i].err = Nil
    /\ res[i].StatusCode = StatusOK
    /\ res[i].Body.valid

Failed(i) == Answered(i) /\ ~Succeeded(i)

TransportFailed(i) == res[i].err = "transport"

StatusFailed(i) == res[i].err = Nil /\ res[i].StatusCode # StatusOK

DecodeFailed(i) ==
    /\ res[i].err = Nil
    /\ res[i].StatusCode = StatusOK
    /\ ~res[i].Body.valid

Count(seq, x) == Cardinality({k \in DOMAIN seq : seq[k] = x})

\* The records the upstream delivered in a 200 response with a decodable body.
ExpectedCount(x) ==
    Cardinality({i \in Idx : Succeeded(i) /\ [Name |-> res[i].Body.name] = x})

NumSucceeded == Cardinality({i \in Idx : Succeeded(i)})

Records == {[Name |-> c] : c \in CityNames \cup {""}}

SameRecords(seq) ==
    /\ Len(seq) = NumSucceeded
    /\ \A x \in Records : Count(seq, x) = ExpectedCount(x)
    /\ \A k \in DOMAIN seq : seq[k] \in Records

Returned == fpc = "returned"

\* C1: when FetchCitiesWeather has returned, every per-city task is in a
\* terminal state: it has run its deferred Done, and it either sent its
\* record or logged its failure.
C1_ReturnAfterAllTerminal ==
    Returned =>
        \A i \in Idx :
            /\ wpc[i] = "finished"
            /\ Answered(i)
            /\ (logged[i] # "none") <=> Failed(i)

C1_Witness ==
    /\ Returned
    /\ Len(cities) >= 2
    /\ \E i \in Idx : Succeeded(i)
    /\ \E i \in Idx : Failed(i)

\* C2: under fair scheduling, with every upstream call returning (the
\* exchange complete, its body read to the end or to an error), a call of
\* FetchCitiesWeather eventually returns, whatever the per-city outcomes.
C2_EventuallyReturns == (fpc = "dispatch") ~> Returned

C2_Witness ==
    /\ Returned
    /\ cpc = "finished"
    /\ Len(cities) >= 2
    /\ \E i \in Idx : TransportFailed(i)
    /\ \E i \in Idx : StatusFailed(i)

\* C3: the returned collection is exactly the multiset of the records of the
\* tasks that succeeded: one record per successful task, none per failed
\* task, nothing else.
C3_ResultIsSuccessMultiset == Returned => SameRecords(ret.result)

C3_Witness ==
    /\ Returned
    /\ Len(cities) >= 2
    /\ \A i \in Idx : Succeeded(i)
    /\ cities[1] # cities[2]
    /\ ret.result[1] = [Name |-> cities[2]]

\* C4: a failed task, whatever the kind of failure, has no entry in the
\* result and does not change what its siblings deliver: the result has one
\* entry per task that succeeded and none besides, every record, the zero
\* record included, occurs as often as successful tasks decoded it, and
\* with one success and one failure the result is the one record of the
\* success; no goroutine panicked.
C4_FailureIsolated ==
    Returned =>
        /\ ~panicked
        /\ Len(ret.result) = Len(cities) - Cardinality({i \in Idx : Failed(i)})
        /\ \A x \in Records : Count(ret.result, x) = ExpectedCount(x)
        /\ \A i \in Idx :
              Succeeded(i) => Count(ret.result, [Name |-> res[i].Body.name]) >= 1
        /\ \A i, j \in Idx :
              (Len(cities) = 2 /\ Succeeded(i) /\ Failed(j)) =>
                 ret.result = <<[Name |-> res[i].Body.name]>>

C4_Witness ==
    /\ Returned
    /\ Len(cities) = 2
    /\ cities[1] # cities[2]
    /\ Succeeded(1)
    /\ DecodeFailed(2)
    /\ ret.result = <<[Name |-> cities[1]]>>
    /\ ret.result = <<[Name |-> res[1].Body.name]>>

\* C5: FetchCitiesWeather never fails as a whole: the error it returns is
\* nil for every list and every combination of outcomes, all failing included.
C5_NeverFails == Returned => (ret.err = Nil /\ ~panicked)

C5_Witness ==
    /\ Returned
    /\ Len(cities) >= 2
    /\ \A i \in Idx : Failed(i)
    /\ ret.result = <<>>
    /\ ret.err = Nil

\* C6: as documented on FetchCitiesWeather, the returned error is non-nil
\* when some per-city request failed.
C6_ErrorOnAnyFailure ==
    (Returned /\ \E i \in Idx : Failed(i)) => ret.err # Nil

\* C7: for a non-empty list of N cities the number of returned records is
\* between 0 and N.
C7_SizeWithinInput ==
    (Returned /\ Len(cities) >= 1) =>
        (0 <= Len(ret.result) /\ Len(ret.result) <= Len(cities))

C7_Witness ==
    /\ Returned
    /\ Len(cities) >= 2
    /\ Len(ret.result) = Len(cities) - 1

\* C8: when every per-city fetch succeeds the result has the size of the
\* input, repeated names counted once per occurrence.
C8_AllSucceedSameSize ==
    (Returned /\ \A i \in Idx : Succeeded(i)) =>
        /\ Len(ret.result) = Len(cities)
        /\ \A x \in Records :
              Count(ret.result, x) =
                 Cardinality({i \in Idx : [Name |-> res[i].Body.name] = x})

C8_Witness ==
    /\ Returned
    /\ Len(cities) >= 2
    /\ cities[1] = cities[2]
    /\ \A i \in Idx : Succeeded(i)
    /\ Len(ret.result) = Len(cities)
    /\ ret.result[1] = ret.result[2]

\* C9: a request without city parameter is answered 400 with the error
\* "At least one city parameter is required", and FetchCitiesWeather is
\* never invoked on that path: nothing is dispatched, no closer is started.
C9_NoCityIs400 ==
    (caller = "handler" /\ Len(cities) = 0) =>
        /\ fpc = "notcalled"
        /\ cpc = "notstarted"
        /\ wg = 0
        /\ ~chClosed
        /\ hpc = "responded" =>
              /\ resp.status = StatusBadRequest
              /\ resp.body = <<APIError(MsgNoCity)>>

C9_Witness ==
    /\ caller = "handler"
    /\ Len(cities) = 0
    /\ hpc = "responded"
    /\ resp.status = StatusBadRequest

\* C10: a request with at least one city is answered 200 with the message
\* "Weather fetched successfully" whatever the per-city outcomes, and the
\* data field holds exactly the records of the cities that succeeded.
C10_FetchIs200 ==
    (/\ caller = "handler"
     /\ provider = "WeatherService"
     /\ Len(cities) >= 1
     /\ hpc = "responded") =>
        /\ resp.status = StatusOK
        /\ Len(resp.body) = 1
        /\ resp.body[1].kind = "response"
        /\ resp.body[1].Message = MsgSuccess
        /\ SameRecords(resp.body[1].Data)

C10_Witness ==
    /\ caller = "handler"
    /\ provider = "WeatherService"
    /\ hpc = "responded"
    /\ Len(cities) >= 2
    /\ \A i \in Idx : Failed(i)
    /\ resp.status = StatusOK
    /\ resp.body[1].Data = <<>>

\* C11: for any WeatherProvider, a non-nil error of FetchCitiesWeather is
\* answered 500 with that error's message and 200 is never written; with a
\* nil error handleRoot writes 200, and 500 is not written while handleRoot
\* itself does not fail.
C11_ProviderErrorIs500 ==
    (caller = "handler" /\ Len(cities) >= 1 /\ hpc = "responded") =>
        IF ret.err # Nil
        THEN /\ resp.status = StatusInternalServerError
             /\ resp.calls = <<StatusInternalServerError>>
             /\ resp.body = <<APIError(ret.err)>>
        ELSE /\ resp.status = StatusOK
             /\ resp.calls[1] = StatusOK
             /\ resp.err = Nil => resp.calls = <<StatusOK>>

C11_Witness ==
    /\ caller = "handler"
    /\ provider = "other"
    /\ hpc = "responded"
    /\ ret.err = "provider failed"
    /\ ret.result # <<>>
    /\ resp.status = StatusInternalServerError

\* C12: a failure raised in the request handler itself, such as a failing
\* encode in WriteJSON, is surfaced as HTTP 500: the status sent is 500.
C12_HandlerFailureIs500 ==
    (hpc = "responded" /\ resp.err # Nil) =>
        resp.status = StatusInternalServerError

\* C13: FetchCityWeather returns a record only for a transport success with
\* status 200 and a decodable body; a transport failure, a non-200 status
\* and an undecodable body each give an error and the zero record; a non-200
\* response is a status error whatever its body is.
C13_FetchCityWeatherOutcome ==
    \A k \in DOMAIN outs :
        LET r == outs[k].res
            o == outs[k].ret
        IN  /\ (o.err = Nil) <=>
                  (r.err = Nil /\ r.StatusCode = StatusOK /\ r.Body.valid)
            /\ o.err = Nil => o.data = [Name |-> r.Body.name]
            /\ o.err # Nil => o.data = ZeroWeatherData
            /\ r.err # Nil => o.err = "fetch"
            /\ (r.err = Nil /\ r.StatusCode # StatusOK) => o.err = "status"
            /\ (r.err = Nil /\ r.StatusCode = StatusOK /\ ~r.Body.valid) =>
                  o.err = "decode"

C13_Witness ==
    /\ Len(outs) = 2
    /\ outs[1].res.StatusCode = StatusNotFound
    /\ ~outs[1].res.Body.valid
    /\ outs[1].ret.err = "status"
    /\ outs[2].ret.err = "decode"

\* C14: no retry and no deduplication: every FetchCityWeather call issues
\* exactly one upstream request, and a FetchCitiesWeather call over N city
\* occurrences issues exactly one per occurrence, N in all.
C14_OneRequestPerOccurrence ==
    /\ \A i \in Idx : gets[i] <= 1
    /\ \A i \in Idx : (wpc[i] \in {"got", "send", "exit", "finished"}) => gets[i] = 1
    /\ Returned => \A i \in Idx : gets[i] = 1
    /\ caller = "single" =>
          \A i \in Idx : gets[i] = IF i <= Len(outs) THEN 1 ELSE 0

C14_Witness ==
    /\ Returned
    /\ Len(cities) >= 2
    /\ cities[1] = cities[2]
    /\ TransportFailed(1)
    /\ \A i \in Idx : gets[i] = 1

\* C15: FetchCitiesWeather called with an empty list terminates with an
\* empty result and a nil error; nothing was dispatched.
C15_EmptyListReturnsEmpty ==
    (fpc = "dispatch" /\ Len(cities) = 0) ~>
        (/\ Returned
         /\ ret = [result |-> <<>>, err |-> Nil]
         /\ next = 0
         /\ wg = 0
         /\ gets = <<>>)

C15_Witness ==
    /\ caller = "direct"
    /\ Len(cities) = 0
    /\ Returned
    /\ ret.result = <<>>
    /\ cpc = "finished"

\* C16: no task waits on another: a task that is not finished can always
\* take its next step, whatever the other tasks are doing (the upstream
\* answer is the only thing a task waits for), and the batch has not
\* returned while a task is still waiting on its upstream call.
C16_NoTaskWaitsOnAnother ==
    /\ \A i \in Idx :
          wpc[i] \in {"get", "got", "send", "exit"} => ENABLED Worker(i)
    /\ \A k \in Idx : wpc[k] \in {"get", "got", "send", "exit"} => ~Returned

C16_Witness ==
    /\ Len(cities) >= 2
    /\ wpc[1] = "get"
    /\ wpc[2] = "finished"
    /\ Succeeded(2)
    /\ result = <<[Name |-> cities[2]]>>
    /\ ~Returned

\* C17 as stated: when FetchCitiesWeather returns every worker has finished
\* and the closer has closed the channel, and every worker and the closer,
\* once started, finish, whatever the upstream does.
C17_NoLeakUnconditionally ==
    /\ [](Returned => (cpc = "finished" /\ \A i \in Idx : wpc[i] = "finished"))
    /\ (cpc = "wait") ~> (cpc = "finished")
    /\ \A i \in 1..MaxCities :
          (i \in Idx /\ wpc[i] = "get") ~> (i \in Idx /\ wpc[i] = "finished")

\* Worker i is waiting on the upstream: in http.Get, or, after a 200, in
\* the read of the body.
AwaitsUpstream(i) ==
    \/ wpc[i] = "get"
    \/ wpc[i] = "got" /\ res[i].StatusCode = StatusOK

\* Worker i has been started, has not finished and is not waiting on the
\* upstream.
WorkerPending(i) ==
    /\ i \in Idx
    /\ wpc[i] \in {"got", "send", "exit"}
    /\ ~AwaitsUpstream(i)

\* The closer has been started, has not finished and no worker of the batch
\* is waiting on the upstream.
CloserPending ==
    /\ cpc \in {"wait", "close"}
    /\ \A i \in Idx : ~AwaitsUpstream(i)

\* C17, amended: when FetchCitiesWeather returns every worker has finished
\* and the closer has closed the channel; a started worker that is not
\* waiting on the upstream finishes; and once no worker of the batch is
\* waiting on the upstream any more the closer finishes.  A worker whose
\* http.Get or whose body read never ends stays blocked, and with it the
\* closer and the collector.
\* A worker leaves WorkerPending, and the closer CloserPending, only by
\* finishing, and neither comes back to it: that each of them finishes is
\* that again and again none of them is pending.
C17_NoGoroutineLeak ==
    /\ [](Returned => (cpc = "finished" /\ \A i \in Idx : wpc[i] = "finished"))
    /\ [](cpc = "finished" => \A i \in Idx : wpc[i] = "finished")
    /\ []<>(~CloserPending /\ \A i \in 1..MaxCities : ~WorkerPending(i))

C17_Witness ==
    /\ Returned
    /\ cpc = "finished"
    /\ Len(cities) >= 2
    /\ DecodeFailed(1)
    /\ Succeeded(2)

\* C19: the WaitGroup counter is the number of started, unfinished workers
\* and never negative; the closer starts waiting after all N Add calls; the
\* channel is closed by the closer only, once, after all N Done calls.
C19_CloseAfterAllDone ==
    /\ wg >= 0
    /\ ~panicked
    /\ wg = Cardinality({i \in Idx : wpc[i] \in {"get", "got", "send", "exit"}})
    /\ cpc # "notstarted" =>
          (next = Len(cities) /\ \A i \in Idx : wpc[i] # "notstarted")
    /\ cpc = "close" => (wg = 0 /\ \A i \in Idx : wpc[i] = "finished")
    /\ chClosed <=> cpc = "finished"
    /\ chClosed => (wg = 0 /\ \A i \in Idx : wpc[i] = "finished")

C19_Witness ==
    /\ chClosed
    /\ Len(cities) >= 2
    /\ wg = 0
    /\ fpc = "collect"
    /\ Len(ch) = 2

\* C20: no worker sends on the closed channel: while a worker has yet to
\* send, the channel is open; a worker past its send has delivered its
\* record; no goroutine panics.
C20_NoSendAfterClose ==
    /\ ~panicked
    /\ \A i \in Idx :
          wpc[i] \in {"get", "got", "send"} => ~chClosed
    /\ \A i \in Idx :
          (wpc[i] \in {"exit", "finished"} /\ Succeeded(i)) =>
             Count(ch \o result, [Name |-> res[i].Body.name]) >= 1

C20_Witness ==
    /\ chClosed
    /\ Len(cities) >= 2
    /\ \A i \in Idx : Succeeded(i)
    /\ Len(result) = 1
    /\ Len(ch) = 1

\* C21: the records buffered in the channel never exceed its capacity
\* len(cities), and a worker at its send can always send, even when the
\* collector has received nothing: the buffered and the collected records
\* together leave room for every worker that has yet to send.
C21_SendNeverBlocks ==
    /\ Len(ch) <= Len(cities)
    /\ Len(ch) + Len(result) + Cardinality({i \in Idx : wpc[i] = "send"})
          <= Len(cities)
    /\ \A i \in Idx : wpc[i] = "send" => ENABLED WorkerSend(i)

C21_Witness ==
    /\ Len(cities) >= 2
    /\ Len(ch) = Len(cities)
    /\ result = <<>>
    /\ \A i \in Idx : wpc[i] = "finished"

\* C22: the accumulator is written by the collector only: every step that
\* changes it is a step of the collecting goroutine that appends the record
\* at the head of the channel, and moves no worker and not the closer.
C22_SingleWriter ==
    [][result' # result =>
          /\ fpc = "collect"
          /\ fpc' = "collect"
          /\ Len(ch) > 0
          /\ result' = Append(result, Head(ch))
          /\ ch' = Tail(ch)
          /\ wpc' = wpc
          /\ cpc' = cpc
          /\ wg' = wg]_vars

C22_Witness ==
    /\ Len(cities) >= 2
    /\ Len(result) = 1
    /\ \E i \in Idx : wpc[i] = "send"
    /\ cpc = "wait"

C24_CollectorSeesEveryOutcome ==
    Returned => (Len(sent) = Len(cities) /\ Len(ret.result) = Len(cities))

\* C24, amended: only the successful tasks send on the channel, one record
\* each; a failed task sends nothing and is seen through its Done only.  The
\* collector receives as many records as tasks succeeded, and all N tasks
\* have called Done when it returns.
C24_OnlySuccessesReachChannel ==
    /\ Len(sent) =
          Cardinality({i \in Idx : wpc[i] \in {"exit", "finished"} /\ Succeeded(i)})
    /\ \A i \in Idx :
          (caller # "single" /\ Failed(i)) => wpc[i] \in {"got", "exit", "finished"}
    /\ \A x \in Records :
          Count(sent, x) =
             Cardinality({i \in Idx : /\ wpc[i] \in {"exit", "finished"}
                                      /\ Succeeded(i)
                                      /\ [Name |-> res[i].Body.name] = x})
    /\ Returned =>
          /\ Len(ret.result) = NumSucceeded
          /\ Len(sent) = NumSucceeded
          /\ Cardinality({i \in Idx : wpc[i] = "finished"}) = Len(cities)

C24_Witness ==
    /\ Returned
    /\ Len(cities) >= 2
    /\ DecodeFailed(1)
    /\ TransportFailed(2)
    /\ sent = <<>>
    /\ \A i \in Idx : wpc[i] = "finished"

\* C25: the concurrent fetcher returns the same multiset of records as the
\* sequential loop over FetchCityWeather does for the same upstream
\* outcomes, and a worker sends exactly when FetchCityWeather returns no
\* error, the record FetchCityWeather returns.
C25_SameAsSequentialLoop ==
    /\ \A i \in Idx :
          wpc[i] = "send" =>
             /\ FetchCityWeather(res[i]).err = Nil
             /\ parseWeatherData(res[i]).data = FetchCityWeather(res[i]).data
    /\ \A i \in Idx :
          (caller # "single" /\ logged[i] # "none") =>
             FetchCityWeather(res[i]).err # Nil
    /\ Returned =>
          /\ Len(ret.result) = Len(SequentialResults(res))
          /\ \A x \in Records :
                Count(ret.result, x) = Count(SequentialResults(res), x)

C25_Witness ==
    /\ Returned
    /\ Len(cities) >= 2
    /\ StatusFailed(1)
    /\ res[1].Body.valid
    /\ Succeeded(2)
    /\ ret.result = SequentialResults(res)
    /\ Len(ret.result) = 1

\* C28: a response obtained without transport error has its body closed
\* exactly once by the time the task or the call is over, on the success
\* path and on both failure paths; after a transport error nothing is
\* closed; no body is closed twice.
C28_BodyClosedOnce ==
    /\ \A i \in Idx : closes[i] <= 1
    /\ \A i \in Idx :
          (wpc[i] = "finished" \/ (caller = "single" /\ i <= Len(outs))) =>
             closes[i] = IF res[i].err = Nil THEN 1 ELSE 0
    /\ \A i \in Idx :
          (wpc[i] \in {"notstarted", "get", "got", "send", "exit"}
              /\ ~(caller = "single" /\ i <= Len(outs))) => closes[i] = 0

C28_Witness ==
    /\ Returned
    /\ Len(cities) >= 2
    /\ TransportFailed(1)
    /\ StatusFailed(2)
    /\ closes[1] = 0
    /\ closes[2] = 1

\* C27: the server never listens without a key.  With OPEN_WEATHER_API_KEY
\* empty the process ends fatally, no WeatherService and no APIServer is
\* ever created, and no request is handled; a handler runs only in a
\* listening process, whose service holds the key; with PORT empty the
\* listen address is ":3000", and otherwise ":" followed by PORT.
C27_NoListenWithoutKey ==
    /\ env.OPEN_WEATHER_API_KEY = "" =>
          /\ proc.state \in {"starting", "fatal"}
          /\ ~proc.server
          /\ proc.addr = ""
          /\ ws = NoService
          /\ hpc = "idle"
          /\ resp = NoResp
          /\ fpc = "notcalled"
    /\ proc.state = "listening" =>
          /\ env.OPEN_WEATHER_API_KEY # ""
          /\ ws = NewWeatherService(env.OPEN_WEATHER_API_KEY)
          /\ proc.server
    /\ (proc.server /\ env.PORT = "") => proc.addr = ":3000"
    /\ (proc.server /\ env.PORT # "") => proc.addr = ":" \o env.PORT
    /\ hpc # "idle" => proc.state = "listening"

C27_Witness ==
    /\ env.OPEN_WEATHER_API_KEY = ""
    /\ env.PORT = ""
    /\ proc.state = "fatal"
    /\ ws = NoService

\* What the upstream answered to worker i of the second call.
OtherSucceeded(i) ==
    /\ other.res[i].err = Nil
    /\ other.res[i].StatusCode = StatusOK
    /\ other.res[i].Body.valid

OtherExpectedCount(x) ==
    Cardinality({i \in OIdx :
                    OtherSucceeded(i) /\ [Name |-> other.res[i].Body.name] = x})

\* C26: two interleaved FetchCitiesWeather calls on one WeatherService do
\* not interfere.  Each call's channel and accumulator hold only records its
\* own workers sent, each call returns only when its own workers are all
\* finished, with the records of its own successes, and the service's apiKey
\* and baseURL stay as constructed; no goroutine panics.
C26_BatchesIndependent ==
    /\ ws = NewWeatherService(ApiKey)
    /\ ~panicked
    /\ \A x \in Records :
          Count(result \o ch, x) =
             Cardinality({i \in Idx : /\ wpc[i] \in {"exit", "finished"}
                                      /\ Succeeded(i)
                                      /\ [Name |-> res[i].Body.name] = x})
    /\ \A x \in Records :
          Count(other.result \o other.ch, x) =
             Cardinality({i \in OIdx : /\ other.wpc[i] \in {"exit", "finished"}
                                       /\ OtherSucceeded(i)
                                       /\ [Name |-> other.res[i].Body.name] = x})
    /\ Len(result \o ch) <= Len(cities)
    /\ Len(other.result \o other.ch) <= Len(other.cities)
    /\ Returned =>
          /\ \A i \in Idx : wpc[i] = "finished"
          /\ SameRecords(ret.result)
    /\ other.fpc = "returned" =>
          /\ \A i \in OIdx : other.wpc[i] = "finished"
          /\ Len(other.ret.result) = Cardinality({i \in OIdx : OtherSucceeded(i)})
          /\ \A x \in Records :
                Count(other.ret.result, x) = OtherExpectedCount(x)

C26_Witness ==
    /\ Returned
    /\ Len(cities) >= 1
    /\ Len(ret.result) = Len(cities)
    /\ Len(other.cities) >= 1
    /\ other.fpc = "collect"
    /\ \E i \in OIdx : other.wpc[i] = "send"
====
